---- MODULE Spec2Model ----
(***************************************************************************)
(* Model of the LAPW species-file family management of aiida-elk:          *)
(*   upload_family, LapwbasisData.get_or_create / from_md5,                *)
(*   LapwbasisData.get_lapwbasis_groups (data/lapwbasis.py) and the        *)
(*   species resolution of ElkCalculation.prepare_for_submission           *)
(*   (calculations.py).                                                    *)
(*                                                                         *)
(* Python strings that the code inspects character by character (file      *)
(* names, file contents, chemical symbols, group labels) are sequences of  *)
(* one-character strings.  Strings the code only stores or compares for    *)
(* equality (descriptions, users, digests) are TLA+ strings.               *)
(*                                                                         *)
(* The calls into aiida-core behave as the code and its notes say: a new   *)
(* Group has the type_string of its class ('core'), whatever is passed;    *)
(* the database holds one group for a label and a type_string; a query     *)
(* that asks for no order answers in any order; QueryBuilder refuses a     *)
(* filter on a key that is no column of the group; a Group has a label     *)
(* and no attribute name.  A value that depends on an order the code does  *)
(* not fix is the set of the values the call can have.                     *)
(***************************************************************************)
EXTENDS Integers, Sequences, FiniteSets, TLC

VARIABLES
    nodes,    \* the stored nodes of the database; the pk of a node is its index
    groups,   \* the stored groups of the database; the pk of a group is its index
    ncalls,   \* number of calls made so far
    ret       \* the last call: its arguments, its outcome, the store before it

vars == <<nodes, groups, ncalls, ret>>

(***************************************************************************)
(* Bounds of the model.                                                    *)
(***************************************************************************)
MaxCalls == 2

LAPWBASIS_GROUP_TYPE == "data.lapwbasis.family"
CORE_GROUP_TYPE == "core"

(***************************************************************************)
(* Characters: str.lower, str.upper, str.isspace, str.strip.               *)
(***************************************************************************)
LowerLetters == <<"a","b","c","d","e","f","g","h","i","j","k","l","m",
                  "n","o","p","q","r","s","t","u","v","w","x","y","z">>
UpperLetters == <<"A","B","C","D","E","F","G","H","I","J","K","L","M",
                  "N","O","P","Q","R","S","T","U","V","W","X","Y","Z">>

IndexIn(c, letters) ==
    IF \E i \in 1..Len(letters) : letters[i] = c
    THEN CHOOSE i \in 1..Len(letters) : letters[i] = c
    ELSE 0

\* the lower-case letter of every upper-case letter, and the reverse
LowerOf ==
    [c \in { UpperLetters[i] : i \in 1..Len(UpperLetters) } |->
        LowerLetters[IndexIn(c, UpperLetters)]]
UpperOf ==
    [c \in { LowerLetters[i] : i \in 1..Len(LowerLetters) } |->
        UpperLetters[IndexIn(c, LowerLetters)]]

LowerChar(c) == IF c \in DOMAIN LowerOf THEN LowerOf[c] ELSE c

UpperChar(c) == IF c \in DOMAIN UpperOf THEN UpperOf[c] ELSE c

\* str.lower()
lower(s) == [i \in 1..Len(s) |-> LowerChar(s[i])]

\* str.capitalize(): first character upper case, the rest lower case
capitalize(s) == [i \in 1..Len(s) |-> IF i = 1 THEN UpperChar(s[i]) ELSE LowerChar(s[i])]

\* str.endswith(suffix)
endswith(s, suffix) ==
    /\ Len(s) >= Len(suffix)
    /\ SubSeq(s, Len(s) - Len(suffix) + 1, Len(s)) = suffix

\* str.isspace() of an ASCII character: the space and the code points 9 to
\* 13 and 28 to 31
IsSpace(c) == c \in {" ", "\t", "\n", "", "\f", "\r", "", "", "", ""}

\* str.replace("'", "")
RemoveQuotes(s) == SelectSeq(s, LAMBDA c : c # "'")

RECURSIVE lstrip(_)
lstrip(s) == IF s # <<>> /\ IsSpace(Head(s)) THEN lstrip(Tail(s)) ELSE s

RECURSIVE rstrip(_)
rstrip(s) ==
    IF s # <<>> /\ IsSpace(s[Len(s)]) THEN rstrip(SubSeq(s, 1, Len(s) - 1)) ELSE s

\* str.strip()
strip(s) == rstrip(lstrip(s))

(***************************************************************************)
(* The file system the calls read: two species directories and a path      *)
(* that is no directory.  A path is a record [dir, name].                  *)
(***************************************************************************)
NameH == <<"H", ".", "i", "n">>
NameO == <<"O", ".", "i", "n">>
NameHcopy == <<"H", "_", "c", "o", "p", "y", ".", "i", "n">>
NameFeUpper == <<"f", "e", ".", "I", "N">>
NameFe == <<"f", "e", ".", "i", "n">>
NameSub == <<"s", "u", "b", ".", "i", "n">>
NameNotes == <<"n", "o", "t", "e", "s", ".", "x", "m", "l">>

\* " 'H'      :s": the symbol sits inside the first 10 characters
BytesH == <<" ", "'", "H", "'", " ", " ", " ", " ", " ", " ", ":", "s">>
\* "'O'\n": a file shorter than 10 characters
BytesO == <<"'", "O", "'", "\n">>
\* "      'fe' :": a lower-case symbol that ends at the 10th character
BytesFe == <<" ", " ", " ", " ", " ", " ", "'", "f", "e", "'", " ", ":">>
BytesNotes == <<"'", "H", "'">>

Folders == {"/water", "/mixed", "/readme"}

\* os.path.join(folder, i)
join(folder, i) == [dir |-> folder, name |-> i]

\* os.path.isdir
isdir(folder) == folder \in {"/water", "/mixed"}

\* the symbolic links of the file system: /mixed/fe.IN -> /lib/fe.in
IsLink(path) == path = join("/mixed", NameFeUpper)

\* os.path.realpath
realpath(path) == IF IsLink(path) THEN join("/lib", NameFe) ELSE path

RegularFiles ==
    { join("/water", NameH), join("/water", NameO), join("/water", NameHcopy),
      join("/lib", NameFe), join("/mixed", NameNotes), join("/mixed", NameH) }

\* os.path.isfile: follows symbolic links; /mixed/sub.in is a directory
isfile(path) == realpath(path) \in RegularFiles

\* the bytes of a regular file
ReadFile(path) ==
    LET p == realpath(path) IN
    IF p.name = NameO THEN BytesO
    ELSE IF p.name = NameFe THEN BytesFe
    ELSE IF p.name = NameNotes THEN BytesNotes
    ELSE BytesH

\* the lists that hold every element of the set S once: the answers of a
\* call that returns S in an order the code does not ask for
RECURSIVE Orders(_)
Orders(S) ==
    IF S = {} THEN { <<>> }
    ELSE UNION { { <<x>> \o rest : rest \in Orders(S \ {x}) } : x \in S }

\* the entries of a directory
DirEntries(folder) ==
    IF folder = "/water" THEN { NameH, NameO, NameHcopy }
    ELSE IF folder = "/mixed" THEN { NameSub, NameFeUpper, NameNotes, NameH }
    ELSE {}

\* os.listdir(folder): the order of the entries is the file system's choice
Listings(folder) == Orders(DirEntries(folder))

\* the listings of every directory of the model
AllListings == [folder \in Folders |-> Listings(folder)]

\* aiida.common.files.md5_file: the digest of the bytes of the file
\* (distinct contents of the model have distinct digests)
md5_file(filename) ==
    LET b == ReadFile(filename) IN
    IF b = BytesH THEN "md5-H"
    ELSE IF b = BytesO THEN "md5-O"
    ELSE IF b = BytesFe THEN "md5-fe"
    ELSE "md5-notes"

\* data_file.read()[:10]
FirstTen(b) == SubSeq(b, 1, IF Len(b) < 10 THEN Len(b) ELSE 10)

parse_species_file(filename) ==
    [chemical_symbol |-> strip(RemoveQuotes(FirstTen(ReadFile(filename))))]

\* the candidates of upload_family: only files, only those ending with .in
\* compared in lower case, each resolved to its real path
CandidateFiles(folder, listing) ==
    LET kept == SelectSeq(listing,
                    LAMBDA i : isfile(join(folder, i)) /\ endswith(lower(i), <<".", "i", "n">>))
    IN [k \in 1..Len(kept) |-> realpath(join(folder, kept[k]))]

(***************************************************************************)
(* The database: queries on the stored nodes and groups.                   *)
(***************************************************************************)
IsLapwbasis(n) == n.kind = "LapwbasisData"

\* LapwbasisData.from_md5: all stored LAPW species with that md5.  The
\* query asks for no order, so this is the set of the lists the database
\* may answer.
from_md5(md5) ==
    Orders({ pk \in 1..Len(nodes) : IsLapwbasis(nodes[pk]) /\ nodes[pk].md5 = md5 })

\* cls(file=filename) with the attributes md5 and chemical_symbol set
NewSpecies(filename, md5sum) ==
    [kind |-> "LapwbasisData", md5 |-> md5sum,
     chemical_symbol |-> parse_species_file(filename).chemical_symbol,
     filename |-> filename.name]

\* a bug: the database is not asked for the md5, a node is always created
get_or_create_NoLookup(filename, use_first) ==
    { [error |-> "none", created |-> TRUE, pk |-> 0, species |-> <<>>,
       node |-> NewSpecies(filename, md5_file(filename))] }

\* a bug: use_first is ignored, more than one species is always an error
get_or_create_Strict(filename, use_first) ==
    LET md5sum == md5_file(filename)
    IN { IF Len(species) = 0
         THEN [error |-> "none", created |-> TRUE, pk |-> 0, species |-> species,
               node |-> NewSpecies(filename, md5sum)]
         ELSE IF Len(species) = 1
         THEN [error |-> "none", created |-> FALSE, pk |-> species[1],
               species |-> species, node |-> nodes[species[1]]]
         ELSE [error |-> "ValueError", created |-> FALSE, pk |-> 0,
               species |-> species, node |-> nodes[species[1]]]
         : species \in from_md5(md5sum) }

\* LapwbasisData.get_or_create: the outcomes the call can have, one for
\* every list from_md5 may answer.  species records that list.
get_or_create(filename, use_first) ==
    LET md5sum == md5_file(filename)
    IN { IF Len(species) = 0
         THEN [error |-> "none", created |-> TRUE, pk |-> 0, species |-> species,
               node |-> NewSpecies(filename, md5sum)]
         ELSE IF Len(species) = 1 \/ use_first
         THEN [error |-> "none", created |-> FALSE, pk |-> species[1],
               species |-> species, node |-> nodes[species[1]]]
         ELSE [error |-> "ValueError", created |-> FALSE, pk |-> 0,
               species |-> species, node |-> nodes[species[1]]]
         : species \in from_md5(md5sum) }

\* x in list
InSeq(x, list) == \E i \in 1..Len(list) : list[i] = x

\* Group.collection.get(label=..., type_string=...): the pks of the matches
GroupsByLabelType(label, type_string) ==
    { g \in 1..Len(groups) :
        groups[g].label = label /\ groups[g].type_string = type_string }

\* Group.collection.get(label=...): the pks of the matches, whatever their type
GroupsByLabel(label) == { g \in 1..Len(groups) : groups[g].label = label }

\* the md5 of the LAPW species of a group, other nodes skipped: one list
\* for every order group.nodes may be iterated in
GroupMd5List(group) ==
    { [k \in 1..Len(pks) |-> nodes[pks[k]].md5] :
        pks \in Orders({ pk \in group.nodes : IsLapwbasis(nodes[pk]) }) }

\* a bug: the md5 of a candidate is not looked up in md5_list
RECURSIVE ResolveFiles_NoSkip(_, _, _, _, _)
ResolveFiles_NoSkip(files, md5_list, species_list, outcomes, stop_if_existing) ==
    IF files = <<>>
    THEN { [error |-> "none", species_list |-> species_list, outcomes |-> outcomes] }
    ELSE UNION {
        LET seen == Append(outcomes, [error |-> sp.error, created |-> sp.created,
                                      pk |-> sp.pk, species |-> sp.species])
        IN IF sp.error # "none"
           THEN { [error |-> sp.error, species_list |-> species_list,
                   outcomes |-> seen] }
           ELSE ResolveFiles_NoSkip(Tail(files), Append(md5_list, sp.node.md5),
                                    Append(species_list, sp), seen, stop_if_existing)
        : sp \in get_or_create(Head(files), ~stop_if_existing) }

\* the loop over the candidate files of upload_family: each is resolved with
\* get_or_create and kept when its md5 is not yet in md5_list; a ValueError
\* of get_or_create ends the loop.  outcomes records each resolution.  The
\* value is the set of the results the loop can have.
RECURSIVE ResolveFiles(_, _, _, _, _)
ResolveFiles(files, md5_list, species_list, outcomes, stop_if_existing) ==
    IF files = <<>>
    THEN { [error |-> "none", species_list |-> species_list, outcomes |-> outcomes] }
    ELSE UNION {
        LET seen == Append(outcomes, [error |-> sp.error, created |-> sp.created,
                                      pk |-> sp.pk, species |-> sp.species])
        IN IF sp.error # "none"
           THEN { [error |-> sp.error, species_list |-> species_list,
                   outcomes |-> seen] }
           ELSE IF ~InSeq(sp.node.md5, md5_list)
           THEN ResolveFiles(Tail(files), Append(md5_list, sp.node.md5),
                             Append(species_list, sp), seen, stop_if_existing)
           ELSE ResolveFiles(Tail(files), md5_list, species_list, seen,
                             stop_if_existing)
        : sp \in get_or_create(Head(files), ~stop_if_existing) }

\* sp.store() for every created species of species_list, in order; pks is
\* the list of the pks of all species of species_list
RECURSIVE StoreSpecies(_, _, _)
StoreSpecies(species_list, stored, pks) ==
    IF species_list = <<>> THEN [nodes |-> stored, pks |-> pks]
    ELSE LET sp == Head(species_list) IN
         IF sp.created
         THEN StoreSpecies(Tail(species_list), Append(stored, sp.node),
                           Append(pks, Len(stored) + 1))
         ELSE StoreSpecies(Tail(species_list), stored, Append(pks, sp.pk))

\* a bug: every species added to the group counts as uploaded
CountCreated_All(species_list) == Len(species_list)

\* len([sp for sp, created in species_list if created])
CountCreated(species_list) == Len(SelectSeq(species_list, LAMBDA sp : sp.created))

(***************************************************************************)
(* The inputs of the calls.                                                *)
(***************************************************************************)
LabelArgon == <<"a", "r", "g", "o", "n">>
LabelBoron == <<"b", "o", "r", "o", "n">>
LabelZinc == <<"z", "i", "n", "c">>
LabelMisc == <<"m", "i", "s", "c">>
LabelNeon == <<"n", "e", "o", "n">>

\* the family names uploads go to
Labels == {LabelBoron, LabelNeon}
Users == {"alice", "bob"}
Descriptions == {"", "lapw"}

\* what a call leaves in ret; a call sets the fields it has
NoCall ==
    [op |-> "none", error |-> "none", folder |-> "", entries |-> {},
     group_name |-> <<>>, group_description |-> "", stop_if_existing |-> FALSE,
     user |-> "", files |-> <<>>, group_created |-> FALSE, group |-> 0,
     outcomes |-> <<>>, nfiles |-> 0, nuploaded |-> 0,
     filter_elements |-> <<>>, query |-> {}, symbols |-> {}, result |-> <<>>,
     nodes_before |-> <<>>, groups_before |-> <<>>]

\* a bug: each created species is stored as soon as it is resolved, so the
\* species resolved before a failing candidate are in the database
NodesStored_Eager(res) == StoreSpecies(res.species_list, nodes, <<>>).nodes

\* the nodes of the database after the loop over the candidates: the
\* created species are stored after the loop, which a ValueError of
\* get_or_create leaves before anything is stored
NodesStored(res) ==
    IF res.error # "none" THEN nodes
    ELSE StoreSpecies(res.species_list, nodes, <<>>).nodes

\* group.add_nodes(members)
AddNodes(group_nodes, members) == group_nodes \cup members

\* if group.user.id != user.id: raise UniquenessError
OwnerMismatch(group, user) == group.user # user

\* group.description = group_description on the stored group gpk: a stored
\* group saves the new description at once
SetDescription(stored_groups, gpk, group_description) ==
    [stored_groups EXCEPT ![gpk].description = group_description]

\* Group(label=group_name, type_string=LAPWBASIS_GROUP_TYPE, user=user): the
\* type_string of the new group is the one of the class Group, not the one
\* passed (the note above the lookup in upload_family)
NewGroup(group_name, user) ==
    [label |-> group_name, type_string |-> CORE_GROUP_TYPE, user |-> user,
     description |-> "", nodes |-> {}]

\* group.store() of a new group: the database holds one group for a label
\* and a type_string, and refuses a second one
StoreRefused(group) ==
    \E g \in 1..Len(groups) :
        groups[g].label = group.label /\ groups[g].type_string = group.type_string

(***************************************************************************)
(* upload_family(folder, group_name, group_description, stop_if_existing)  *)
(* run by the default user `user`, os.listdir answering `listing`.         *)
(***************************************************************************)
upload_family(folder, listing, group_name, group_description, stop_if_existing, user) ==
    LET call == [NoCall EXCEPT !.op = "upload_family", !.folder = folder,
                     !.entries = { listing[k] : k \in 1..Len(listing) },
                     !.group_name = group_name,
                     !.group_description = group_description,
                     !.stop_if_existing = stop_if_existing, !.user = user,
                     !.nodes_before = nodes, !.groups_before = groups]
        files == CandidateFiles(folder, listing)
        found == GroupsByLabelType(group_name, LAPWBASIS_GROUP_TYPE)
        group_created == found = {}
        gpk == IF group_created THEN Len(groups) + 1 ELSE CHOOSE g \in found : TRUE
        group == IF group_created THEN NewGroup(group_name, user) ELSE groups[gpk]
        described == IF group_created THEN groups
                     ELSE SetDescription(groups, gpk, group_description)
        saved == IF group_created
                 THEN Append(groups, [group EXCEPT !.description = group_description])
                 ELSE described
        md5_lists == IF group_created THEN { <<>> } ELSE GroupMd5List(group)
    IN /\ ncalls < MaxCalls
       /\ ncalls' = ncalls + 1
       /\ IF ~isdir(folder)
          THEN /\ ret' = [call EXCEPT !.error = "ValueError: folder must be a directory"]
               /\ UNCHANGED <<nodes, groups>>
          ELSE IF OwnerMismatch(group, user)
          THEN /\ ret' = [call EXCEPT !.error = "UniquenessError", !.group = gpk]
               /\ UNCHANGED <<nodes, groups>>
          ELSE \E res \in UNION { ResolveFiles(files, md5_list, <<>>, <<>>, stop_if_existing) :
                                    md5_list \in md5_lists } :
                 LET stored == StoreSpecies(res.species_list, nodes, <<>>)
                     members == { stored.pks[k] : k \in 1..Len(stored.pks) }
                 IN IF res.error # "none"
                    THEN /\ ret' = [call EXCEPT !.error = res.error, !.files = files,
                                        !.group_created = group_created, !.group = gpk,
                                        !.outcomes = res.outcomes]
                         /\ groups' = described
                         /\ nodes' = NodesStored(res)
                    ELSE IF group_created /\ StoreRefused(group)
                    THEN /\ ret' = [call EXCEPT !.error = "IntegrityError", !.files = files,
                                        !.group_created = group_created, !.group = gpk,
                                        !.outcomes = res.outcomes]
                         /\ UNCHANGED <<nodes, groups>>
                    ELSE /\ ret' = [call EXCEPT !.files = files,
                                        !.group_created = group_created,
                                        !.group = gpk, !.outcomes = res.outcomes,
                                        !.nfiles = Len(files),
                                        !.nuploaded = CountCreated(res.species_list)]
                         /\ nodes' = NodesStored(res)
                         /\ groups' = [saved EXCEPT ![gpk].nodes = AddNodes(@, members)]

\* os.listdir may answer any listing of the directory.  The call depends on
\* the listing through its candidate files and its set of entries, which
\* is the same for all: one listing stands for all the listings that give
\* the same list of candidates.
ListingChoices ==
    [folder \in Folders |->
        { CHOOSE l \in AllListings[folder] : CandidateFiles(folder, l) = files :
            files \in { CandidateFiles(folder, l) : l \in AllListings[folder] } }]

UploadFamily ==
    \E folder \in Folders :
        \E listing \in ListingChoices[folder] :
            \E group_name \in Labels, group_description \in Descriptions,
               stop_if_existing \in BOOLEAN, user \in Users :
                upload_family(folder, listing, group_name, group_description,
                              stop_if_existing, user)

(***************************************************************************)
(* LapwbasisData.get_lapwbasis_groups(filter_elements, user)               *)
(***************************************************************************)
None == "None"

NoFilter == [kind |-> "None", value |-> <<>>]
StrFilter(symbol) == [kind |-> "str", value |-> symbol]
ListFilter(symbols) == [kind |-> "list", value |-> symbols]

\* if isinstance(filter_elements, str): filter_elements = [filter_elements]
\* actual_filter_elements = {_.capitalize() for _ in filter_elements}
ActualFilterElements(filter_elements) ==
    LET list == IF filter_elements.kind = "str"
                THEN <<filter_elements.value>>
                ELSE filter_elements.value
    IN { capitalize(list[k]) : k \in 1..Len(list) }

\* group_query_params: type_string, user when one is given, node_attributes
\* when a filter is given
group_query_params(filter_elements, user) ==
    [keys |-> {"type_string"}
                \cup (IF user # None THEN {"user"} ELSE {})
                \cup (IF filter_elements.kind # "None" THEN {"node_attributes"} ELSE {}),
     type_string |-> LAPWBASIS_GROUP_TYPE,
     user |-> user,
     node_attributes |->
         [chemical_symbol |-> IF filter_elements.kind = "None" THEN {}
                              ELSE ActualFilterElements(filter_elements)]]

\* QueryBuilder.append(Group, filters=params): user and node_attributes,
\* keywords of the former Group.query, are no columns of a group, and a
\* filter on one of them is refused
QueryRefuses(params) == "user" \in params.keys \/ "node_attributes" \in params.keys

\* builder.all(flat=True): the groups of the type_string, in an order the
\* query does not ask for
QueryGroups(params) ==
    Orders({ g \in 1..Len(groups) : groups[g].type_string = params.type_string })

\* groups = [(g.name, g) for g in all_lapwbasis_groups]; groups.sort();
\* return [_[1] for _ in groups]: a Group has a label and no attribute
\* name, so reading g.name of the first group of the list raises
\* AttributeError, and the sort is reached with the empty list only
SortByName(list) ==
    IF list = <<>> THEN [error |-> "none", result |-> <<>>]
    ELSE [error |-> "AttributeError", result |-> <<>>]

get_lapwbasis_groups(filter_elements, user) ==
    LET params == group_query_params(filter_elements, user)
        call == [NoCall EXCEPT !.op = "get_lapwbasis_groups",
                     !.filter_elements = filter_elements, !.user = user,
                     !.query = params.keys,
                     !.nodes_before = nodes, !.groups_before = groups]
    IN /\ ncalls < MaxCalls
       /\ ncalls' = ncalls + 1
       /\ IF QueryRefuses(params)
          THEN ret' = [call EXCEPT !.error = "ValueError"]
          ELSE \E all_lapwbasis_groups \in QueryGroups(params) :
                  LET sorted == SortByName(all_lapwbasis_groups)
                  IN ret' = [call EXCEPT !.error = sorted.error,
                                         !.result = sorted.result]
       /\ UNCHANGED <<nodes, groups>>

FilterInputs ==
    { NoFilter, StrFilter(<<"h">>), StrFilter(<<"f", "E">>),
      ListFilter(<<<<"H">>, <<"o">>>>), ListFilter(<<<<"H">>, <<"C">>>>) }

GetLapwbasisGroups ==
    \E filter_elements \in FilterInputs, user \in {None, "alice"} :
        get_lapwbasis_groups(filter_elements, user)

(***************************************************************************)
(* ElkCalculation.prepare_for_submission: the species files of the         *)
(* structure, looked up in the group named by the lapwbasis input.         *)
(* species is structure.get_symbols_set(), a set of str, which the loop    *)
(* iterates in an order that changes from one interpreter to the next.     *)
(***************************************************************************)
_SPECIES_SUBFOLDER == "species"

\* the nodes of the group that are LAPW species of the element, in every
\* order lapwbasis_group.nodes may be iterated in
SpeciesNodes(group, specie) ==
    Orders({ pk \in group.nodes :
        IsLapwbasis(nodes[pk]) /\ nodes[pk].chemical_symbol = specie })

\* the local_copy_list the two loops can build for one order of the species
RECURSIVE LocalCopyList(_, _)
LocalCopyList(group, species) ==
    IF species = <<>> THEN { <<>> }
    ELSE { [k \in 1..Len(pks) |->
                [uuid |-> pks[k], filename |-> nodes[pks[k]].filename,
                 path |-> join(_SPECIES_SUBFOLDER, nodes[pks[k]].filename)]] \o rest :
             pks \in SpeciesNodes(group, Head(species)),
             rest \in LocalCopyList(group, Tail(species)) }

prepare_for_submission(lapwbasis, species) ==
    LET found == GroupsByLabel(lapwbasis)
        call == [NoCall EXCEPT !.op = "prepare_for_submission",
                     !.group_name = lapwbasis, !.symbols = species,
                     !.nodes_before = nodes, !.groups_before = groups]
    IN /\ ncalls < MaxCalls
       /\ ncalls' = ncalls + 1
       /\ IF found = {} THEN ret' = [call EXCEPT !.error = "NotExistent"]
          ELSE IF Cardinality(found) > 1
          THEN ret' = [call EXCEPT !.error = "MultipleObjectsError"]
          ELSE LET g == CHOOSE x \in found : TRUE
               IN \E order \in Orders(species) :
                     \E local_copy_list \in LocalCopyList(groups[g], order) :
                        ret' = [call EXCEPT !.group = g, !.result = local_copy_list]
       /\ UNCHANGED <<nodes, groups>>

SpeciesInputs == { {<<"H">>}, {<<"O">>, <<"H">>}, {<<"f", "e">>} }

PrepareForSubmission ==
    \E lapwbasis \in {LabelArgon, LabelZinc, LabelMisc}, species \in SpeciesInputs :
        prepare_for_submission(lapwbasis, species)

(***************************************************************************)
(* The specifications.  Spec starts from the empty database.  SpecShared   *)
(* starts from a database other clients have written to as well: it holds  *)
(* three families, two LAPW species with the same md5, a node of another   *)
(* kind inside a family, and groups of another type, one of them named     *)
(* like a family.                                                          *)
(***************************************************************************)
SharedNodes ==
    << [kind |-> "LapwbasisData", md5 |-> "md5-H", chemical_symbol |-> <<"H">>,
        filename |-> NameH],
       [kind |-> "LapwbasisData", md5 |-> "md5-O", chemical_symbol |-> <<"O">>,
        filename |-> NameO],
       [kind |-> "LapwbasisData", md5 |-> "md5-H", chemical_symbol |-> <<"H">>,
        filename |-> NameHcopy],
       [kind |-> "SinglefileData", md5 |-> "md5-fe", chemical_symbol |-> <<"O">>,
        filename |-> NameNotes] >>

SharedGroups ==
    << [label |-> LabelZinc, type_string |-> LAPWBASIS_GROUP_TYPE, user |-> "alice",
        description |-> "lapw", nodes |-> {1, 2}],
       [label |-> LabelArgon, type_string |-> LAPWBASIS_GROUP_TYPE, user |-> "bob",
        description |-> "", nodes |-> {3, 4}],
       [label |-> LabelBoron, type_string |-> LAPWBASIS_GROUP_TYPE, user |-> "alice",
        description |-> "", nodes |-> {4}],
       [label |-> LabelZinc, type_string |-> CORE_GROUP_TYPE, user |-> "bob",
        description |-> "", nodes |-> {2}],
       [label |-> LabelMisc, type_string |-> CORE_GROUP_TYPE, user |-> "alice",
        description |-> "", nodes |-> {1, 2}] >>

Init ==
    /\ nodes = <<>>
    /\ groups = <<>>
    /\ ncalls = 0
    /\ ret = NoCall

InitShared ==
    /\ nodes = SharedNodes
    /\ groups = SharedGroups
    /\ ncalls = 0
    /\ ret = NoCall

Next ==
    \/ UploadFamily
    \/ GetLapwbasisGroups
    \/ PrepareForSubmission

Spec == Init /\ [][Next]_vars

SpecShared == InitShared /\ [][Next]_vars

(***************************************************************************)
(* Properties.                                                             *)
(***************************************************************************)
Uploaded == ret.op = "upload_family"
UploadedOk == Uploaded /\ ret.error = "none"

\* the pks of the LAPW species among the nodes ns
LapwPks(ns) == { pk \in 1..Len(ns) : IsLapwbasis(ns[pk]) }

\* the pks of the LAPW species among the nodes ns that have the md5
WithMd5(ns, md5) == { pk \in LapwPks(ns) : ns[pk].md5 = md5 }

\* the pks of the families (groups of the LAPW family type) among gs
Families(gs) == { g \in 1..Len(gs) : gs[g].type_string = LAPWBASIS_GROUP_TYPE }

\* the pks of the groups among gs that have the name.  From the empty
\* database every group is one that upload_family stored for a family.
Named(gs, name) == { g \in 1..Len(gs) : gs[g].label = name }

\* C1: starting from the empty database, after any sequence of calls no two
\* stored LAPW species have the same md5.
C1_ContentAddressed ==
    \A p, q \in LapwPks(nodes) : nodes[p].md5 = nodes[q].md5 => p = q

\* the directory with two files of the same bytes was uploaded a second
\* time, into another family
C1_Witness ==
    /\ UploadedOk /\ ret.folder = "/water" /\ ret.group_created
    /\ ret.groups_before # <<>> /\ WithMd5(ret.nodes_before, "md5-H") # {}
    /\ Cardinality(groups[ret.group].nodes) = 2

\* C2: when a successful upload is followed by an upload of the same
\* directory to the same family name by the same user, the second call
\* succeeds with nuploaded = 0 and the same nfiles, and the members of the
\* family stay the same.
C2_Idempotence ==
    [][ ( /\ UploadedOk
          /\ ret'.op = "upload_family"
          /\ ret'.folder = ret.folder
          /\ ret'.group_name = ret.group_name
          /\ ret'.user = ret.user )
        => ( /\ ret'.error = "none"
             /\ ret'.nuploaded = 0
             /\ ret'.nfiles = ret.nfiles
             /\ ret'.group = ret.group
             /\ groups'[ret.group].nodes = groups[ret.group].nodes ) ]_vars

\* C3: an upload (of a directory) to a family name that exists and belongs
\* to another user fails with UniquenessError and leaves nodes and groups,
\* the description and the members of the family included, as they were.
C3_Ownership ==
    ( /\ Uploaded
      /\ isdir(ret.folder)
      /\ \E g \in Named(ret.groups_before, ret.group_name) :
            ret.groups_before[g].user # ret.user )
    => ( /\ ret.error = "UniquenessError"
         /\ nodes = ret.nodes_before
         /\ groups = ret.groups_before )

\* the entry of the directory is a regular file whose name ends in .in
IsInFile(folder, name) ==
    /\ isfile(join(folder, name))
    /\ Len(name) >= 3
    /\ lower(SubSeq(name, Len(name) - 2, Len(name))) = <<".", "i", "n">>

\* C4: a successful upload returns nfiles = the number of regular .in files
\* of the directory and nuploaded = the number of LAPW species it stored,
\* which is the number of md5 among the candidates that no stored LAPW
\* species had; three files, two of them with the same bytes, uploaded to
\* the empty database give (3, 2).
C4_UploadResult ==
    UploadedOk =>
        /\ ret.nfiles =
              Cardinality({ name \in ret.entries : IsInFile(ret.folder, name) })
        /\ ret.nuploaded = Len(nodes) - Len(ret.nodes_before)
        /\ ret.nuploaded =
              Cardinality({ md5_file(ret.files[k]) : k \in 1..Len(ret.files) }
                          \ { ret.nodes_before[pk].md5 : pk \in LapwPks(ret.nodes_before) })
        /\ (ret.folder = "/water" /\ ret.nodes_before = <<>>)
              => (ret.nfiles = 3 /\ ret.nuploaded = 2)

\* H.in, O.in and H_copy.in were uploaded to the empty database
C4_Witness ==
    /\ UploadedOk /\ ret.folder = "/water" /\ ret.nodes_before = <<>>
    /\ ret.nfiles = 3 /\ ret.nuploaded = 2 /\ Len(nodes) = 2

\* C5: after a successful upload into the family F, every former member of
\* F is a member, and for the md5 of every candidate file F has exactly one
\* LAPW species with that md5; when species with that md5 were stored
\* before the call the member is one of them and no new node, and when
\* exactly one was stored (a member of another family, say) it is that one.
C5_Membership ==
    UploadedOk =>
        LET F == groups[ret.group] IN
        /\ ~ret.group_created => ret.groups_before[ret.group].nodes \subseteq F.nodes
        /\ \A k \in 1..Len(ret.files) :
              LET md5 == md5_file(ret.files[k])
                  inF == F.nodes \cap WithMd5(nodes, md5)
                  before == WithMd5(ret.nodes_before, md5)
              IN /\ Cardinality(inF) = 1
                 /\ before # {} => inF \subseteq before
                 /\ Cardinality(before) = 1 => inF = before

\* a family that had members was given the one stored species of the md5 of
\* O.in, which another family has as well
C5_Witness ==
    /\ UploadedOk /\ ~ret.group_created
    /\ ret.groups_before[ret.group].nodes # {}
    /\ ret.groups_before[ret.group].nodes \subseteq groups[ret.group].nodes
    /\ \E pk \in groups[ret.group].nodes \ ret.groups_before[ret.group].nodes :
          /\ pk \in WithMd5(ret.nodes_before, "md5-O")
          /\ \E g \in Families(groups) : g # ret.group /\ pk \in groups[g].nodes

\* the upload passed the directory test and the owner test
Reached == Uploaded /\ isdir(ret.folder) /\ ret.error # "UniquenessError"

\* C6: after an upload by the owner of an existing family, and after an
\* upload that creates the family, the description of the family is the
\* one given to the call: also when no member was added, also when the call
\* failed on two stored species with the md5 of a candidate.
C6_DescriptionOverwrite ==
    ( /\ Uploaded
      /\ isdir(ret.folder)
      /\ \/ \E g \in Named(ret.groups_before, ret.group_name) :
               ret.groups_before[g].user = ret.user
         \/ /\ ret.error = "none"
            /\ Named(ret.groups_before, ret.group_name) = {} )
    => \E g \in Named(groups, ret.group_name) :
          groups[g].description = ret.group_description

\* C7: in an upload, a candidate whose md5 more than one stored LAPW
\* species has fails the call with ValueError when stop_if_existing is
\* true and is resolved to the first species of the list from_md5 answered
\* when it is false; a candidate whose md5 exactly one stored species has
\* is resolved to that species, whatever stop_if_existing is.  With
\* stop_if_existing false the call does not fail with ValueError and
\* every candidate is resolved.
C7_HashAmbiguity ==
    Reached =>
        /\ \A k \in 1..Len(ret.outcomes) :
              LET o == ret.outcomes[k]
                  same == WithMd5(ret.nodes_before, md5_file(ret.files[k]))
              IN /\ { o.species[i] : i \in 1..Len(o.species) } = same
                 /\ Len(o.species) = Cardinality(same)
                 /\ (Cardinality(same) > 1 /\ ret.stop_if_existing)
                       => (o.error = "ValueError" /\ ret.error = "ValueError")
                 /\ (Cardinality(same) > 1 /\ ~ret.stop_if_existing)
                       => /\ o.error = "none" /\ ~o.created
                          /\ o.pk = o.species[1]
                 /\ Cardinality(same) = 1
                       => (o.error = "none" /\ ~o.created /\ same = {o.pk})
        /\ ret.error # "ValueError" => Len(ret.outcomes) = Len(ret.files)
        /\ ret.error = "ValueError" =>
              /\ ret.outcomes # <<>>
              /\ ret.outcomes[Len(ret.outcomes)].error = "ValueError"
              /\ Len(ret.outcomes) <= Len(ret.files)
        /\ ~ret.stop_if_existing => ret.error # "ValueError"
        /\ ( /\ ret.stop_if_existing
             /\ \E k \in 1..Len(ret.files) :
                   Cardinality(WithMd5(ret.nodes_before, md5_file(ret.files[k]))) > 1 )
           => ret.error = "ValueError"

\* O.in was resolved to the one stored species of its md5, then H.in, whose
\* md5 two stored species have, failed the call
C7_Witness ==
    /\ Reached /\ ret.stop_if_existing /\ ret.error = "ValueError"
    /\ Len(ret.outcomes) = 2
    /\ ret.outcomes[1].error = "none" /\ ~ret.outcomes[1].created
    /\ Cardinality(WithMd5(ret.nodes_before, md5_file(ret.files[2]))) = 2

\* C8 (the docstring of upload_family): with stop_if_existing true the call
\* raises when a stored species has the md5 of a file; with stop_if_existing
\* false the call adds the stored species to the group.
C8_DocumentedStopIfExisting ==
    Reached =>
        /\ ( /\ ret.stop_if_existing
             /\ \E k \in 1..Len(ret.files) :
                   WithMd5(ret.nodes_before, md5_file(ret.files[k])) # {} )
           => ret.error # "none"
        /\ ~ret.stop_if_existing =>
              /\ ret.error = "none"
              /\ \A k \in 1..Len(ret.files) :
                    LET same == WithMd5(ret.nodes_before, md5_file(ret.files[k]))
                    IN same # {} => groups[ret.group].nodes \cap same # {}

\* Python's order of str is the order of the code points.  The ASCII
\* characters of the code points 1 to 31, in this order
Controls ==
    <<"", "", "", "", "", "", "", "",
      "\t", "\n", "", "\f", "\r", "", "", "",
      "", "", "", "", "", "", "", "",
      "", "", "", "", "", "", "">>

\* the ASCII characters of the code points 32 to 95 and 97 to 126, in this
\* order (the grave accent, code point 96, cannot be written in a string here)
Printable ==
    <<" ", "!", "\"", "#", "$", "%", "&", "'", "(", ")", "*", "+", ",", "-", ".", "/",
      "0", "1", "2", "3", "4", "5", "6", "7", "8", "9", ":", ";", "<", "=", ">", "?",
      "@", "A", "B", "C", "D", "E", "F", "G", "H", "I", "J", "K", "L", "M", "N", "O",
      "P", "Q", "R", "S", "T", "U", "V", "W", "X", "Y", "Z", "[", "\\", "]", "^", "_",
      "a", "b", "c", "d", "e", "f", "g", "h", "i", "j", "k", "l", "m", "n", "o",
      "p", "q", "r", "s", "t", "u", "v", "w", "x", "y", "z", "{", "|", "}", "~">>

\* ord(c) of an ASCII character of a stored name (a name in the database
\* holds no character of code point 0); the last case is the code point 127
Ord(c) ==
    IF IndexIn(c, Controls) > 0 THEN IndexIn(c, Controls)
    ELSE IF IndexIn(c, Printable) > 64 THEN 32 + IndexIn(c, Printable)
    ELSE IF IndexIn(c, Printable) > 0 THEN 31 + IndexIn(c, Printable)
    ELSE 127

\* a < b for Python strings: lexicographic by code point
RECURSIVE StrLess(_, _)
StrLess(a, b) ==
    IF b = <<>> THEN FALSE
    ELSE IF a = <<>> THEN TRUE
    ELSE IF Ord(Head(a)) # Ord(Head(b)) THEN Ord(Head(a)) < Ord(Head(b))
    ELSE StrLess(Tail(a), Tail(b))

\* the symbols a filter asks for
Requested(filter_elements) ==
    IF filter_elements.kind = "None" THEN {}
    ELSE IF filter_elements.kind = "str" THEN {filter_elements.value}
    ELSE { filter_elements.value[k] : k \in 1..Len(filter_elements.value) }

\* the chemical symbols of the LAPW species of the group
SymbolsOf(group) ==
    { nodes[pk].chemical_symbol : pk \in { m \in group.nodes : IsLapwbasis(nodes[m]) } }

\* C9: get_lapwbasis_groups returns exactly the families, of the user when
\* one is given, that have a LAPW species with the capitalized symbol for
\* every symbol asked for, each once, in ascending order of their names,
\* and changes neither nodes nor groups; a family with the species H and O
\* is returned for the filter h and not for the filter H, C; the families
\* zinc, argon, boron are returned as argon, boron, zinc.
C9_ListFamilies ==
    ret.op = "get_lapwbasis_groups" =>
        LET wanted ==
                { g \in Families(groups) :
                    /\ ret.user # None => groups[g].user = ret.user
                    /\ \A s \in Requested(ret.filter_elements) :
                          capitalize(s) \in SymbolsOf(groups[g]) }
            names == [k \in 1..Len(ret.result) |-> groups[ret.result[k]].label]
        IN /\ ret.error = "none"
           /\ { ret.result[k] : k \in 1..Len(ret.result) } = wanted
           /\ Len(ret.result) = Cardinality(wanted)
           /\ \A i, j \in 1..Len(names) : i < j => StrLess(names[i], names[j])
           /\ nodes = ret.nodes_before
           /\ groups = ret.groups_before
           /\ \A g \in Families(groups) :
                 (SymbolsOf(groups[g]) = {<<"H">>, <<"O">>} /\ ret.user = None) =>
                     /\ ret.filter_elements = StrFilter(<<"h">>)
                           => \E k \in 1..Len(ret.result) : ret.result[k] = g
                     /\ ret.filter_elements = ListFilter(<<<<"H">>, <<"C">>>>)
                           => \A k \in 1..Len(ret.result) : ret.result[k] # g
           /\ ( /\ ret.filter_elements = NoFilter /\ ret.user = None
                /\ { groups[g].label : g \in Families(groups) }
                      = {LabelZinc, LabelArgon, LabelBoron} )
              => names = <<LabelArgon, LabelBoron, LabelZinc>>

\* C10: upload_family and the species resolution of prepare_for_submission
\* look the named family up among the groups of the LAPW family type only:
\* an upload leaves the groups of other types as they were and creates the
\* family exactly when no family has the name; the resolution fails with
\* NotExistent when no family has the name and otherwise returns the LAPW
\* species of that family, and no other node, whose chemical_symbol is one
\* of the symbols.
C10_FamilyNamespacing ==
    /\ Reached =>
          /\ \A g \in 1..Len(ret.groups_before) :
                ret.groups_before[g].type_string # LAPWBASIS_GROUP_TYPE
                    => groups[g] = ret.groups_before[g]
          /\ ret.group_created <=>
                \A g \in Families(ret.groups_before) :
                    ret.groups_before[g].label # ret.group_name
    /\ ret.op = "prepare_for_submission" =>
          LET family == { g \in Families(groups) : groups[g].label = ret.group_name }
              wanted == { pk \in LapwPks(nodes) :
                            /\ \E g \in family : pk \in groups[g].nodes
                            /\ nodes[pk].chemical_symbol \in ret.symbols }
          IN IF family = {} THEN ret.error = "NotExistent"
             ELSE /\ ret.error = "none"
                  /\ { ret.result[k].uuid : k \in 1..Len(ret.result) } = wanted

\* C11: when an upload fails on a candidate whose md5 more than one stored
\* LAPW species has, be it the first, a middle or the last candidate, the
\* database has no new group, no new node, and every group has the members
\* (and the label, type and owner) it had before the call.
C11_FailureAtomicity ==
    (Uploaded /\ ret.error = "ValueError") =>
        /\ nodes = ret.nodes_before
        /\ Len(groups) = Len(ret.groups_before)
        /\ \A g \in 1..Len(groups) :
              /\ groups[g].nodes = ret.groups_before[g].nodes
              /\ groups[g].label = ret.groups_before[g].label
              /\ groups[g].type_string = ret.groups_before[g].type_string
              /\ groups[g].user = ret.groups_before[g].user

\* the upload to a new family failed on its last candidate, after a
\* candidate no stored species has the md5 of was resolved to a new species
C11_Witness ==
    /\ Uploaded /\ ret.error = "ValueError" /\ ret.group_created
    /\ Len(ret.files) = 2 /\ Len(ret.outcomes) = 2
    /\ ret.outcomes[1].error = "none" /\ ret.outcomes[1].created
    /\ ret.outcomes[2].error = "ValueError"

====
